---- MODULE Spec2Model ----
(***************************************************************************)
(* Model of the sberauto load pipeline: the snapshot orchestrator          *)
(* insert_data (modules/data_pipeline.py) and the incremental orchestrator *)
(* process_and_load_json_data (modules/json_to_db.py) writing the tables   *)
(* sessions and hits declared in modules/create_tables.py through a        *)
(* connection opened by config/db_config.py.                               *)
(*                                                                         *)
(* A data frame or a JSON list is a sequence of rows, a row is a record,   *)
(* a table of the store is a set of rows with a unique key.                *)
(***************************************************************************)
EXTENDS Integers, Sequences, FiniteSets, TLC

VARIABLES
    sessions,   \* rows of table sessions (durable content of the store)
    hits,       \* rows of table hits     (durable content of the store)
    lastRun     \* what the orchestrator that ran last was given and how it ended

vars == <<sessions, hits, lastRun>>

(***************************************************************************)
(* Bounds of the model.                                                    *)
(***************************************************************************)
\* rows (session rows plus hit rows) one run is given
MaxRows == 3
\* rows of one bulk_insert batch; the code's default is 10000
BatchRows == 4
\* rows of one INSERT statement issued by execute_values; psycopg2's page_size
PageRows == 2
\* hits in a batch of the large snapshot runs
MaxBatchHits == 2
\* rows a run is given when its environment is not the healthy one
MaxFaultRows == 1
\* rows of a frame remove_outliers is called on by itself
MaxOutlierRows == 7
\* rows of a list bulk_insert is called on by itself
MaxLoaderRows == 9
\* input rows of each task of a DAG run whose two tasks are followed together
MaxPairRows == 2
\* records of a JSON file whose name is not the plain one
MaxRenamedRows == 1

(***************************************************************************)
(* Values.                                                                 *)
(***************************************************************************)
\* Python None / a pandas missing value in a text column
None == "<null>"
\* pandas NaT: the date that could not be parsed
NaT == 0

\* '%Y-%m-%d' text to a calendar date (an integer yyyymmdd), NaT when the text
\* is no such date
ParseDate(text) ==
    CASE text = "2024-01-03" -> 20240103
      [] text = "2024-01-05" -> 20240105
      [] OTHER -> NaT

\* str.lower().str.strip() on the text values of the model
lower_strip(text) ==
    CASE text = "Organic" -> "organic"
      [] text = " View" -> "view"
      [] OTHER -> text

Session(id, src, medium, date, number, os, brand, model) ==
    [session_id |-> id, utm_source |-> src, utm_medium |-> medium,
     visit_date |-> date, visit_number |-> number, device_os |-> os,
     device_brand |-> brand, device_model |-> model]

Hit(id, date, number, label) ==
    [session_id |-> id, hit_date |-> date, hit_number |-> number,
     event_label |-> label]

(***************************************************************************)
(* Input records the runs draw from: raw rows as they are in the snapshot  *)
(* files and in the JSON files (dates are text, text is not yet cleaned).  *)
(***************************************************************************)
SessionPool ==
    { Session("s1", "google", "cpc", "2024-01-03", 1, "android", "samsung", "a50"),
      Session("s1", "yandex", "Organic", "2024-01-05", 2, "ios", None, "iphone"),
      Session("s2", "google", "spammy_channel", "2024-01-03", 1, "android", "samsung", "a50"),
      Session("s2", "google", "cpc", "not-a-date", 1, "android", "samsung", "a50"),
      Session("s2", "google", "cpc", "2024-01-03", 0, "android", "samsung", "a50") }

HitPool ==
    { Hit("s1", "2024-01-05", 1, "click"),
      Hit("s1", "2024-01-03", 1, " View"),
      Hit("s2", "2024-01-03", 1, "click") }

SeqsUpTo(S, n) == UNION { [1..k -> S] : k \in 0..n }

\* the two snapshot files: a sessions frame and a hits frame
SnapshotInputs ==
    UNION { { <<s, h>> : s \in [1..k -> SessionPool],
                         h \in SeqsUpTo(HitPool, MaxRows - k) } : k \in 0..MaxRows }

(***************************************************************************)
(* Data frame helpers.                                                     *)
(***************************************************************************)
\* the rows of df whose index is in keep, in the order of df
Pick(df, keep) ==
    LET F[i \in 0..Len(df)] ==
            IF i = 0 THEN <<>>
            ELSE IF i \in keep THEN Append(F[i - 1], df[i]) ELSE F[i - 1]
    IN F[Len(df)]

Rows(df) == { df[i] : i \in 1..Len(df) }

Column(df, col) == [i \in 1..Len(df) |-> df[i][col]]

\* DataFrame.drop_duplicates(): of rows equal in every column the first is kept
drop_duplicates(df) ==
    Pick(df, { i \in 1..Len(df) : \A j \in 1..(i - 1) : df[j] # df[i] })

\* DataFrame.drop_duplicates(subset=['session_id', 'hit_number']), keep='first'
drop_duplicates_subset(df) ==
    Pick(df, { i \in 1..Len(df) :
                 \A j \in 1..(i - 1) :
                     ~(df[j].session_id = df[i].session_id
                       /\ df[j].hit_number = df[i].hit_number) })

\* pd.to_datetime(column, errors='coerce')
to_datetime(df, col) ==
    [i \in 1..Len(df) |-> [df[i] EXCEPT ![col] = ParseDate(df[i][col])]]

\* df[pd.to_datetime(df[col], errors='coerce').notna()]
drop_bad_dates(df, col) ==
    Pick(df, { i \in 1..Len(df) : df[i][col] # NaT })

\* clean_string_columns: a text column without missing values is lower-cased
\* and stripped, a text column with a missing value is left as it is
clean_string_columns(df, textCols) ==
    LET clean(col) == \A i \in 1..Len(df) : df[i][col] # None
    IN [i \in 1..Len(df) |->
          [c \in DOMAIN df[i] |->
              IF c \in textCols /\ clean(c) THEN lower_strip(df[i][c]) ELSE df[i][c]]]

SessionTextCols ==
    {"session_id", "utm_source", "utm_medium", "device_os", "device_brand", "device_model"}

HitTextCols == {"session_id", "event_label"}

\* validate_data_types: astype(dtype, errors='ignore') leaves a column that
\* already has the expected dtype, or that cannot be coerced, as it is; the
\* columns of the pools carry the dtypes of the schema
validate_data_types(df) == df

Whitelist ==
    {"organic", "blogger_channel", "blogger_stories", "banner", "cpc",
     "referral", "cpm", "(none)", "app", "email", "smm", "vk_smm",
     "push", "stories", "tg", "smartbanner"}

\* df_sessions[df_sessions['utm_medium'].isin([...])]
whitelist_filter(df) ==
    Pick(df, { i \in 1..Len(df) : df[i].utm_medium \in Whitelist })

\* df_hits[df_hits['session_id'].isin(valid_session_ids)]
filter_hits_by_sessions(dfHits, dfSessions) ==
    LET valid_session_ids == { dfSessions[i].session_id : i \in 1..Len(dfSessions) }
    IN Pick(dfHits, { i \in 1..Len(dfHits) : dfHits[i].session_id \in valid_session_ids })

\* DataFrame.fillna({col: 'unknown', ...}) for the columns that are loaded
fillna(df, cols) ==
    [i \in 1..Len(df) |->
        [c \in DOMAIN df[i] |->
            IF c \in cols /\ df[i][c] = None THEN "unknown" ELSE df[i][c]]]

SessionFillCols == {"utm_source", "utm_medium", "device_os", "device_brand", "device_model"}

HitFillCols == {"event_label"}

\* the values of a column in ascending order
RECURSIVE SortedValues(_)
SortedValues(vals) ==
    IF Len(vals) = 0 THEN <<>>
    ELSE LET m == CHOOSE i \in 1..Len(vals) : \A j \in 1..Len(vals) : vals[i] <= vals[j]
         IN <<vals[m]>> \o SortedValues(Pick(vals, (1..Len(vals)) \ {m}))

\* A defective quantile, used to test the properties below: the order
\* statistic below the position, without interpolation.
Quantile4Lower(vals, k) ==
    4 * SortedValues(vals)[(((Len(vals) - 1) * k) \div 4) + 1]

\* 4 * Series.quantile(k/4), k in {1, 3}: pandas interpolates linearly between
\* the two order statistics around position (n - 1) * k / 4
Quantile4(vals, k) ==
    LET s == SortedValues(vals)
        n == Len(s)
        lo == ((n - 1) * k) \div 4
        rem == ((n - 1) * k) % 4
    IN IF rem = 0 THEN 4 * s[lo + 1]
       ELSE 4 * s[lo + 1] + rem * (s[lo + 2] - s[lo + 1])

\* remove_outliers: rows with q1 - 1.5*iqr <= value <= q3 + 1.5*iqr
\* (all sides multiplied by 8 to stay in the integers)
remove_outliers(df, col) ==
    IF Len(df) = 0 THEN df
    ELSE LET q_one == Quantile4(Column(df, col), 1)
             q_three == Quantile4(Column(df, col), 3)
             iqr == q_three - q_one
         IN Pick(df, { i \in 1..Len(df) :
                         /\ 8 * df[i][col] >= 2 * q_one - 3 * iqr
                         /\ 8 * df[i][col] <= 2 * q_three + 3 * iqr })

\* load_data: the cleaned sessions frame and the cleaned hits frame
load_data_sessions(rawSessions) ==
    LET deduped == drop_duplicates(rawSessions)
        dated == drop_bad_dates(to_datetime(deduped, "visit_date"), "visit_date")
        cleaned == validate_data_types(clean_string_columns(dated, SessionTextCols))
    IN whitelist_filter(cleaned)

load_data(rawSessions, rawHits) ==
    LET listed == load_data_sessions(rawSessions)
        hdeduped == drop_duplicates(rawHits)
        hdated == drop_bad_dates(to_datetime(hdeduped, "hit_date"), "hit_date")
        hcleaned == validate_data_types(clean_string_columns(hdated, HitTextCols))
        hvalid == filter_hits_by_sessions(hcleaned, listed)
    IN [df_sessions |-> remove_outliers(fillna(listed, SessionFillCols), "visit_number"),
        df_hits |-> remove_outliers(fillna(hvalid, HitFillCols), "hit_number")]

(***************************************************************************)
(* The store: tables sessions and hits as create_tables declares them, and *)
(* the INSERT statements of the two orchestrators.                         *)
(***************************************************************************)
SessionIdsOf(tbl) == { r.session_id : r \in tbl }

HitKey(r) == <<r.session_id, r.hit_number>>

\* sessions: every column NOT NULL, CHECK (visit_number > 0)
SessionRowOK(r) ==
    /\ \A c \in SessionTextCols : r[c] # None
    /\ r.visit_date # NaT
    /\ r.visit_number > 0

\* hits: every column NOT NULL, CHECK (hit_number > 0)
HitRowOK(r) ==
    /\ \A c \in HitTextCols : r[c] # None
    /\ r.hit_date # NaT
    /\ r.hit_number > 0

\* hits.session_id REFERENCES sessions (session_id), checked when the
\* statement ends
ForeignKeyOK(sessTbl, rows) ==
    \A i \in 1..Len(rows) : rows[i].session_id \in SessionIdsOf(sessTbl)

\* Variants of the conflict clause with a defect, used to test the properties
\* below: the visit counter is accumulated; the table row always wins; the
\* incoming row always wins.
SessionOnConflictAccumulate(existing, incoming, policy) ==
    [existing EXCEPT !.visit_number = @ + incoming.visit_number]

SessionOnConflictKeep(existing, incoming, policy) == existing

SessionOnConflictOverwrite(existing, incoming, policy) == incoming

\* Two more: the row with the later visit_date wins under either policy; a
\* row that is all "unknown" gives way to the incoming row under DO NOTHING.
SessionOnConflictLatest(existing, incoming, policy) ==
    IF incoming.visit_date > existing.visit_date THEN incoming ELSE existing

SessionOnConflictFillUnknown(existing, incoming, policy) ==
    IF policy = "DO NOTHING" /\ existing.utm_source # "unknown" THEN existing
    ELSE incoming

\* the row a key holds after ON CONFLICT (session_id) <policy>: DO NOTHING
\* keeps the row of the table, DO UPDATE SET col = EXCLUDED.col for every
\* other column gives the incoming row
SessionOnConflict(existing, incoming, policy) ==
    IF policy = "DO NOTHING" THEN existing ELSE incoming

\* A defective load of sessions, used to test the properties below: the table
\* is emptied and refilled with the incoming rows.
ReplaceSessionsStatement(tbl, rows, policy) ==
    IF \A i \in 1..Len(rows) : SessionRowOK(rows[i])
    THEN [ok |-> TRUE,
          tbl |-> { rows[i] : i \in { j \in 1..Len(rows) :
                        \A k \in (j + 1)..Len(rows) :
                            rows[k].session_id # rows[j].session_id } }]
    ELSE [ok |-> FALSE, tbl |-> tbl]

\* One INSERT INTO sessions ... VALUES rows ON CONFLICT (session_id) <policy>.
\* A row that breaks a column constraint fails the statement; a row whose key
\* is present is skipped (DO NOTHING) or replaces the row (DO UPDATE), and
\* DO UPDATE fails when the statement touches one key twice.
\* [ok, tbl]: a failed statement leaves the table as it was.
InsertSessionsStatement(tbl, rows, policy) ==
    LET F[i \in 0..Len(rows)] ==
            IF i = 0 THEN [ok |-> TRUE, tbl |-> tbl, touched |-> {}]
            ELSE LET p == F[i - 1]
                     r == rows[i]
                     old == { x \in p.tbl : x.session_id = r.session_id }
                 IN IF ~p.ok THEN p
                    ELSE IF ~SessionRowOK(r) THEN [p EXCEPT !.ok = FALSE]
                    ELSE IF old = {}
                         THEN [ok |-> TRUE, tbl |-> p.tbl \cup {r},
                               touched |-> p.touched \cup {r.session_id}]
                    ELSE IF policy = "DO UPDATE" /\ r.session_id \in p.touched
                         THEN [p EXCEPT !.ok = FALSE]
                    ELSE [ok |-> TRUE,
                          tbl |-> (p.tbl \ old)
                                  \cup { SessionOnConflict(x, r, policy) : x \in old },
                          touched |-> p.touched \cup {r.session_id}]
        end == F[Len(rows)]
    IN IF end.ok THEN [ok |-> TRUE, tbl |-> end.tbl] ELSE [ok |-> FALSE, tbl |-> tbl]

\* A defective load of hits, used to test the properties below: the table is
\* emptied and refilled with the incoming rows.
ReplaceHitsStatement(sessTbl, tbl, rows) ==
    IF (\A i \in 1..Len(rows) : HitRowOK(rows[i])) /\ ForeignKeyOK(sessTbl, rows)
    THEN [ok |-> TRUE,
          tbl |-> { rows[i] : i \in { j \in 1..Len(rows) :
                        \A k \in (j + 1)..Len(rows) :
                            HitKey(rows[k]) # HitKey(rows[j]) } }]
    ELSE [ok |-> FALSE, tbl |-> tbl]

\* One INSERT INTO hits ... VALUES rows ON CONFLICT (session_id, hit_number)
\* DO UPDATE SET hit_date = EXCLUDED.hit_date, event_label = EXCLUDED.event_label
InsertHitsStatement(sessTbl, tbl, rows) ==
    LET F[i \in 0..Len(rows)] ==
            IF i = 0 THEN [ok |-> TRUE, tbl |-> tbl, touched |-> {}]
            ELSE LET p == F[i - 1]
                     r == rows[i]
                     old == { x \in p.tbl : HitKey(x) = HitKey(r) }
                 IN IF ~p.ok THEN p
                    ELSE IF ~HitRowOK(r) THEN [p EXCEPT !.ok = FALSE]
                    ELSE IF HitKey(r) \in p.touched THEN [p EXCEPT !.ok = FALSE]
                    ELSE [ok |-> TRUE, tbl |-> (p.tbl \ old) \cup {r},
                          touched |-> p.touched \cup {HitKey(r)}]
        end == F[Len(rows)]
    IN IF end.ok /\ ForeignKeyOK(sessTbl, rows)
       THEN [ok |-> TRUE, tbl |-> end.tbl]
       ELSE [ok |-> FALSE, tbl |-> tbl]

(***************************************************************************)
(* The connection.  cur is what the connection sees, dur what is durable;   *)
(* log and batches record what was sent over it.                           *)
(***************************************************************************)
\* get_db_connection: connection.set_isolation_level(ISOLATION_LEVEL_AUTOCOMMIT)
get_db_connection(sessTbl, hitTbl) ==
    [autocommit |-> TRUE,
     dur |-> [sessions |-> sessTbl, hits |-> hitTbl],
     cur |-> [sessions |-> sessTbl, hits |-> hitTbl],
     log |-> <<>>, batches |-> <<>>]

\* batches keeps the batches execute_values was called with.
\* The connection once a statement has been handed to the store: log keeps
\* the table, the rows and the session rows that were durable at that moment
Submitted(conn, table, rows) ==
    [conn EXCEPT !.log = Append(@, [table |-> table, rows |-> rows,
                                    committed |-> conn.dur.sessions])]

\* the connection after one statement that produced the tables t
Executed(conn, t) ==
    [conn EXCEPT !.cur = t, !.dur = IF conn.autocommit THEN t ELSE conn.dur]

commit(conn) == [conn EXCEPT !.dur = conn.cur]

rollback(conn) == [conn EXCEPT !.cur = conn.dur]

\* what a statement on `table` leaves: res = [ok, tbl] is what the store made
\* of it; a failed statement changes nothing
statement_outcome(conn, table, res) ==
    [ok |-> res.ok,
     conn |-> IF res.ok
              THEN Executed(conn, [conn.cur EXCEPT ![table] = res.tbl])
              ELSE conn]

\* cursor.execute of one statement: [ok, conn]
execute(conn, table, policy, rows) ==
    statement_outcome(Submitted(conn, table, rows), table,
        IF table = "sessions"
        THEN InsertSessionsStatement(conn.cur.sessions, rows, policy)
        ELSE InsertHitsStatement(conn.cur.sessions, conn.cur.hits, rows))

\* data[i:i + n] for i in range(0, len(data), n)
Chunks(data, n) ==
    [k \in 1..((Len(data) + n - 1) \div n) |->
        SubSeq(data, (k - 1) * n + 1, IF k * n < Len(data) THEN k * n ELSE Len(data))]

Flatten(seqs) ==
    LET F[i \in 0..Len(seqs)] == IF i = 0 THEN <<>> ELSE F[i - 1] \o seqs[i]
    IN F[Len(seqs)]

\* execute_values(cursor, query, batch): one statement per page of the batch
execute_values_pages(batch) == Chunks(batch, PageRows)

\* the statements bulk_insert issues for data, in order
bulk_insert_statements(data) ==
    LET batches == Chunks(data, BatchRows)
    IN Flatten([b \in 1..Len(batches) |-> execute_values_pages(batches[b])])

\* the connection once execute_values has been called with batch
Called(conn, batch) == [conn EXCEPT !.batches = Append(@, batch)]

\* a loop after one more step: p is the progress before it, res what the
\* step returned
statement_sent(p, res) ==
    [ok |-> res.ok, conn |-> res.conn,
     sent |-> IF res.ok THEN p.sent + 1 ELSE p.sent]

\* execute_values(cursor, query, batch): the statements of the pages run in
\* order, the first failure raises.  [ok, conn, sent]
execute_values(conn, table, policy, batch) ==
    LET pages == execute_values_pages(batch)
        F[i \in 0..Len(pages)] ==
            IF i = 0 THEN [ok |-> TRUE, conn |-> Called(conn, batch), sent |-> 0]
            ELSE IF ~F[i - 1].ok THEN F[i - 1]
            ELSE statement_sent(F[i - 1],
                                execute(F[i - 1].conn, table, policy, pages[i]))
    IN F[Len(pages)]

\* A defective slicing, used to test the properties below: only the batches
\* of n rows are cut, the rows after the last of them are left out.
ChunksFull(data, batch_size) ==
    [k \in 1..(Len(data) \div batch_size) |->
        SubSeq(data, (k - 1) * batch_size + 1, k * batch_size)]

\* the batches bulk_insert cuts data into:
\* data[i:i + batch_size] for i in range(0, len(data), batch_size)
bulk_insert_batches(data, batch_size) == Chunks(data, batch_size)

\* bulk_insert: execute_values is called batch after batch, the first failure
\* raises.  [ok, conn, sent]: sent counts the calls that succeeded.
bulk_insert(conn, table, policy, data) ==
    LET batches == bulk_insert_batches(data, BatchRows)
        F[i \in 0..Len(batches)] ==
            IF i = 0 THEN [ok |-> TRUE, conn |-> conn, sent |-> 0]
            ELSE IF ~F[i - 1].ok THEN F[i - 1]
            ELSE statement_sent(F[i - 1],
                                execute_values(F[i - 1].conn, table, policy,
                                               batches[i]))
    IN F[Len(batches)]

(***************************************************************************)
(* insert_data: the snapshot orchestrator.                                 *)
(***************************************************************************)
Tables(conn) == conn.dur

MinOf(S) == CHOOSE x \in S : \A y \in S : x <= y

\* the lists that iterating a Python set can give: its elements once each,
\* in any order (the order of a set of str depends on the hash seed)
SetToSeqs(S) ==
    { ids \in [1..Cardinality(S) -> S] :
        \A i, j \in 1..Cardinality(S) : ids[i] = ids[j] => i = j }

\* A defective min_dates, used to test the properties below: the hit_date of
\* the first hit of the session_id.
first_dates(df_hits, session_id) ==
    df_hits[CHOOSE i \in 1..Len(df_hits) :
                /\ df_hits[i].session_id = session_id
                /\ \A j \in 1..(i - 1) : df_hits[j].session_id # session_id].hit_date

\* df_hits.groupby('session_id')['hit_date'].min() for one session_id
min_dates(df_hits, session_id) ==
    MinOf({ df_hits[i].hit_date : i \in { j \in 1..Len(df_hits) :
                                            df_hits[j].session_id = session_id } })

\* the placeholder row written for a session_id that only hits refer to
missing_session_row(df_hits, session_id) ==
    Session(session_id, "unknown", "unknown", min_dates(df_hits, session_id), 1,
            "unknown", "unknown", "unknown")

\* A defective missing_sessions, used to test the properties below: no
\* session_id is found missing, so that the gap step is skipped.
no_missing_sessions(df_hits, existing_sessions) == {}

\* set(df_hits['session_id']) - existing_sessions
missing_sessions(df_hits, existing_sessions) ==
    { df_hits[i].session_id : i \in 1..Len(df_hits) } \ existing_sessions

\* how a run ended: except (rollback) and finally (close) leave the durable
\* tables; lastCommit is the store as of the last connection.commit() reached
RunResult(ok, stage, conn, lastCommit, frames, missing) ==
    [ok |-> ok, stage |-> stage,
     store |-> Tables(IF ok THEN conn ELSE rollback(conn)),
     lastCommit |-> lastCommit,
     df_sessions |-> frames.df_sessions, df_hits |-> frames.df_hits,
     missing |-> missing,
     log |-> conn.log]

\* the placeholder rows, one per missing session_id
missing_sessions_data(df_hits, ids) ==
    [i \in 1..Len(ids) |-> missing_session_row(df_hits, ids[i])]

\* after bulk_insert(cursor, insert_hits_query, hits_data) returned st3:
\* connection.commit(), or the except block
hits_inserted(frames, missing, c2, st3) ==
    IF ~st3.ok
    THEN RunResult(FALSE, "hits", st3.conn, Tables(c2), frames, missing)
    ELSE RunResult(TRUE, "done", commit(st3.conn), Tables(commit(st3.conn)),
                   frames, missing)

\* hits_data = df_hits.drop_duplicates(subset=...) and its bulk_insert, on
\* the connection c2 as the gap step left it
insert_hits(frames, missing, c2) ==
    hits_inserted(frames, missing, c2,
        bulk_insert(c2, "hits", "DO UPDATE", drop_duplicates_subset(frames.df_hits)))

\* after bulk_insert(cursor, insert_sessions_query, missing_sessions_data)
\* returned st2; the step is skipped when nothing is missing
missing_sessions_inserted(frames, missing, c1, st2) ==
    IF missing # {} /\ ~st2.ok
    THEN RunResult(FALSE, "missing sessions", st2.conn, Tables(c1), frames, missing)
    ELSE insert_hits(frames, missing, IF missing = {} THEN c1 ELSE commit(st2.conn))

\* the gap step on the connection c1 as the sessions stage left it: the
\* ways the run can end, one for each order ... for session_id in
\* missing_sessions can take
insert_missing_sessions(frames, missing, c1) ==
    { missing_sessions_inserted(frames, missing, c1,
          bulk_insert(c1, "sessions", "DO NOTHING",
                      missing_sessions_data(frames.df_hits, ids))) :
        ids \in SetToSeqs(missing) }

\* SELECT session_id FROM sessions, then the gap step
find_missing_sessions(frames, c1) ==
    insert_missing_sessions(frames,
        missing_sessions(frames.df_hits, SessionIdsOf(c1.cur.sessions)), c1)

\* after bulk_insert(cursor, insert_sessions_query, sessions_data) returned
\* st1: connection.commit(), or the except block
sessions_inserted(frames, conn0, st1) ==
    IF ~st1.ok
    THEN { RunResult(FALSE, "sessions", st1.conn, Tables(commit(conn0)), frames, {}) }
    ELSE find_missing_sessions(frames, commit(st1.conn))

\* the try block of insert_data on the frames load_data returned: the ways
\* it can end
insert_frames(frames, conn0) ==
    sessions_inserted(frames, conn0,
        bulk_insert(conn0, "sessions", "DO NOTHING", frames.df_sessions))

insert_data(sessTbl, hitTbl, rawSessions, rawHits) ==
    insert_frames(load_data(rawSessions, rawHits),
                  get_db_connection(sessTbl, hitTbl))

(***************************************************************************)
(* process_and_load_json_data: the incremental orchestrator.               *)
(***************************************************************************)
\* A file of the listing.  Its name is the path glob returns, kept as the
\* sequence of the words it is made of: <<"ga_sessions", "2024-01-03">> is
\* .../json_data/ga_sessions_2024-01-03.json
JsonFile(name, rows) == [name |-> name, rows |-> rows]

\* word in filename: the word is somewhere in the path
InName(word, name) == \E i \in 1..Len(name) : name[i] = word

\* if 'ga_sessions' in filename
IsSessionsFile(f) == InName("ga_sessions", f.name)

\* elif 'ga_hits' in filename
IsHitsFile(f) == ~IsSessionsFile(f) /\ InName("ga_hits", f.name)

SessionsName == <<"ga_sessions">>

HitsName == <<"ga_hits">>

\* other paths that hold session records, hit records, or neither
OtherSessionsNames == { <<"ga_sessions", "2024-01-03">>, <<"ga_sessions", "ga_hits">> }

OtherHitsNames == { <<"ga_hits", "new">> }

OtherNames == { <<"readme">> }

\* the *.json files glob returns, in the order it returns them: at most one
\* sessions file and one hits file of MaxRows records together, or files with
\* other names of at most MaxRenamedRows records each
IncrementalInputs ==
    { <<>> }
    \cup { <<JsonFile(SessionsName, s)>> : s \in SeqsUpTo(SessionPool, MaxRows) }
    \cup { <<JsonFile(HitsName, h)>> : h \in SeqsUpTo(HitPool, MaxRows) }
    \cup UNION { { <<JsonFile(SessionsName, s), JsonFile(HitsName, h)>> :
                      s \in [1..k -> SessionPool],
                      h \in SeqsUpTo(HitPool, MaxRows - k) } : k \in 0..MaxRows }
    \cup UNION { { <<JsonFile(HitsName, h), JsonFile(SessionsName, s)>> :
                      s \in [1..k -> SessionPool],
                      h \in SeqsUpTo(HitPool, MaxRows - k) } : k \in 0..MaxRows }
    \cup { <<JsonFile(SessionsName, s), JsonFile(name, t)>> :
              s \in SeqsUpTo(SessionPool, MaxRenamedRows),
              t \in SeqsUpTo(SessionPool, MaxRenamedRows),
              name \in OtherSessionsNames \cup OtherNames }
    \cup { <<JsonFile(SessionsName, s), JsonFile(name, h)>> :
              s \in SeqsUpTo(SessionPool, MaxRenamedRows),
              h \in SeqsUpTo(HitPool, MaxRenamedRows),
              name \in OtherHitsNames }

\* the rows of the files of a listing that the branch of the table takes
RowsOfFiles(files, table) ==
    Flatten([i \in 1..Len(files) |->
                IF (table = "sessions" /\ IsSessionsFile(files[i]))
                   \/ (table = "hits" /\ IsHitsFile(files[i]))
                THEN files[i].rows ELSE <<>>])

\* datetime.strptime(text, '%Y-%m-%d') raises ValueError on any other text
strptime_raises(text) == ParseDate(text) = NaT

\* session.get(key, 'unknown') if session.get(key) not in [None, 'NaN'] else 'unknown'
unknown_if_missing(value) == IF value \in {None, "NaN"} THEN "unknown" ELSE value

\* process_sessions_data: [ok, data]; ok is FALSE when a record raises
process_sessions_data(rows) ==
    [ok |-> \A i \in 1..Len(rows) : ~strptime_raises(rows[i].visit_date),
     data |-> [i \in 1..Len(rows) |->
                 Session(rows[i].session_id, rows[i].utm_source, rows[i].utm_medium,
                         ParseDate(rows[i].visit_date), rows[i].visit_number,
                         rows[i].device_os,
                         unknown_if_missing(rows[i].device_brand),
                         unknown_if_missing(rows[i].device_model))]]

\* A defective process_hits_data, used to test the properties below: the
\* records are not filtered by the session_ids of the store.
process_hits_data_unfiltered(rows, valid_sessions_ids) ==
    [ok |-> \A i \in 1..Len(rows) : ~strptime_raises(rows[i].hit_date),
     data |-> [i \in 1..Len(rows) |->
                 Hit(rows[i].session_id, ParseDate(rows[i].hit_date),
                     rows[i].hit_number, rows[i].event_label)]]

\* process_hits_data: [ok, data]; every record is parsed, the ones of a known
\* session are kept
process_hits_data(rows, valid_sessions_ids) ==
    [ok |-> \A i \in 1..Len(rows) : ~strptime_raises(rows[i].hit_date),
     data |-> LET parsed == [i \in 1..Len(rows) |->
                               Hit(rows[i].session_id, ParseDate(rows[i].hit_date),
                                   rows[i].hit_number, rows[i].event_label)]
              IN Pick(parsed, { i \in 1..Len(rows) :
                                  rows[i].session_id \in valid_sessions_ids })]

\* connection.commit() after bulk_insert returned st: [ok, conn]
insert_committed(st) ==
    IF ~st.ok THEN [ok |-> FALSE, conn |-> st.conn]
    ELSE [ok |-> TRUE, conn |-> commit(st.conn)]

\* the rows got = [ok, data] a file gave: nothing is sent when a record raised
load_file_rows(conn, table, got) ==
    IF ~got.ok THEN [ok |-> FALSE, conn |-> conn]
    ELSE insert_committed(bulk_insert(conn, table, "DO UPDATE", got.data))

\* the body of the loop for one file: [ok, conn]
process_file(conn, f) ==
    IF IsSessionsFile(f)
    THEN load_file_rows(conn, "sessions", process_sessions_data(f.rows))
    ELSE IF IsHitsFile(f)
    THEN load_file_rows(conn, "hits",
                        process_hits_data(f.rows, SessionIdsOf(conn.cur.sessions)))
    ELSE [ok |-> TRUE, conn |-> conn]

\* the loop after file number i: p is the progress before it, res what the
\* body returned
file_processed(p, i, res) ==
    [ok |-> res.ok, conn |-> res.conn,
     lastCommit |-> IF res.ok THEN Tables(res.conn) ELSE p.lastCommit,
     done |-> IF res.ok THEN i ELSE p.done]

\* for json_file in json_files: the first exception ends the loop
process_files(conn0, files) ==
    LET F[i \in 0..Len(files)] ==
            IF i = 0
            THEN [ok |-> TRUE, conn |-> conn0, lastCommit |-> Tables(commit(conn0)),
                  done |-> 0]
            ELSE IF ~F[i - 1].ok THEN F[i - 1]
            ELSE file_processed(F[i - 1], i, process_file(F[i - 1].conn, files[i]))
    IN F[Len(files)]

\* except (rollback) and finally (close): the durable tables are what is left
json_run_result(end) ==
    [ok |-> end.ok,
     store |-> Tables(IF end.ok THEN end.conn ELSE rollback(end.conn)),
     lastCommit |-> end.lastCommit,
     done |-> end.done,
     log |-> end.conn.log]

\* [ok, store, lastCommit, done]: done counts the files that were loaded
process_and_load_json_data(sessTbl, hitTbl, files) ==
    json_run_result(process_files(get_db_connection(sessTbl, hitTbl), files))

(***************************************************************************)
(* The environment of a run: whether the snapshot files are there, which   *)
(* of the set-up calls of the try block raises, and whether                *)
(* connection.rollback() raises when the except block calls it.            *)
(***************************************************************************)
Env(found, fault, rollback_raises) ==
    [found |-> found, fault |-> fault, rollback_raises |-> rollback_raises]

Healthy == Env(TRUE, "none", FALSE)

\* create_database_if_not_exists(); connection = get_db_connection('sberdb');
\* create_tables(connection)
SetupCalls == <<"create_database_if_not_exists", "get_db_connection", "create_tables">>

Faults == {"none"} \cup Rows(SetupCalls)

\* the set-up calls made when the call named fault raises
setup_calls(fault) ==
    IF fault = "create_database_if_not_exists" THEN SubSeq(SetupCalls, 1, 1)
    ELSE IF fault = "get_db_connection" THEN SubSeq(SetupCalls, 1, 2)
    ELSE SetupCalls

\* whether the name connection is bound when the call named fault raises
connection_bound(fault) ==
    fault \notin {"create_database_if_not_exists", "get_db_connection"}

\* the exception that leaves the set-up call named fault when
\* psycopg2.connect raises OperationalError in it:
\* create_database_if_not_exists logs it, re-raises, and its own
\* finally: if conn: reads the name conn, which is not bound, so that
\* UnboundLocalError leaves the call; get_db_connection re-raises
setup_error(fault) ==
    IF fault = "create_database_if_not_exists" THEN "UnboundLocalError"
    ELSE "OperationalError"

\* A handler with a defect, used to test the properties below: the
\* connection is closed after the rollback, in the except block.
except_close(bound, error, rollback_raises) ==
    IF ~bound
    THEN [error |-> error, raised |-> "UnboundLocalError", connection |-> "unbound"]
    ELSE IF rollback_raises
    THEN [error |-> error, raised |-> "InterfaceError", connection |-> "open"]
    ELSE [error |-> error, raised |-> "none", connection |-> "closed"]

\* except Exception: connection.rollback(), then finally: if connection:
\* connection.close().  The except block does not re-raise; an unbound name
\* raises in the except block and again in the finally block, and a rollback
\* that raises leaves through the finally block.
\* [error, raised, connection]: the exception of the try block, the exception
\* that leaves the orchestrator, and what became of the connection.
except_finally(bound, error, rollback_raises) ==
    IF ~bound
    THEN [error |-> error, raised |-> "UnboundLocalError", connection |-> "unbound"]
    ELSE IF rollback_raises
    THEN [error |-> error, raised |-> "InterfaceError", connection |-> "closed"]
    ELSE [error |-> error, raised |-> "none", connection |-> "closed"]

\* the try block ended without an exception: finally closes the connection
finally_close == [error |-> "none", raised |-> "none", connection |-> "closed"]

\* how a snapshot run ended that did not reach its first stage
NotLoaded(stage, sessTbl, hitTbl, frames) ==
    [ok |-> FALSE, stage |-> stage,
     store |-> [sessions |-> sessTbl, hits |-> hitTbl],
     lastCommit |-> [sessions |-> sessTbl, hits |-> hitTbl],
     df_sessions |-> frames.df_sessions, df_hits |-> frames.df_hits,
     missing |-> {}, log |-> <<>>]

\* what a call of insert_data comes to: r is what the run did to the store,
\* calls the set-up calls it made, exit how it left
Outcome(r, calls, exit) ==
    [ok |-> r.ok, stage |-> r.stage, store |-> r.store, lastCommit |-> r.lastCommit,
     df_sessions |-> r.df_sessions, df_hits |-> r.df_hits, missing |-> r.missing,
     log |-> r.log, calls |-> calls,
     error |-> exit.error, raised |-> exit.raised, connection |-> exit.connection]

\* the end of insert_data once the stages have run
insert_data_returns(r, env) ==
    Outcome(r, SetupCalls,
            IF r.ok THEN finally_close
            ELSE except_finally(TRUE, "psycopg2.Error", env.rollback_raises))

\* insert_data in the environment env: the ways it can end.  When a snapshot file is absent
\* load_data returns None and the unpacking df_sessions, df_hits = load_data()
\* raises TypeError before the try block is entered.
insert_data_in(env, sessTbl, hitTbl, rawSessions, rawHits) ==
    IF ~env.found
    THEN { Outcome(NotLoaded("load_data", sessTbl, hitTbl,
                             [df_sessions |-> <<>>, df_hits |-> <<>>]),
                   <<>>,
                   [error |-> "TypeError", raised |-> "TypeError",
                    connection |-> "unbound"]) }
    ELSE IF env.fault # "none"
    THEN { Outcome(NotLoaded(env.fault, sessTbl, hitTbl,
                             load_data(rawSessions, rawHits)),
                   setup_calls(env.fault),
                   except_finally(connection_bound(env.fault), setup_error(env.fault),
                                  env.rollback_raises)) }
    ELSE { insert_data_returns(r, env) :
             r \in insert_data(sessTbl, hitTbl, rawSessions, rawHits) }

\* what a call of process_and_load_json_data comes to
JsonOutcome(r, calls, exit) ==
    [ok |-> r.ok, store |-> r.store, lastCommit |-> r.lastCommit, done |-> r.done,
     log |-> r.log, calls |-> calls,
     error |-> exit.error, raised |-> exit.raised, connection |-> exit.connection]

\* the end of process_and_load_json_data once the loop over the files has run
json_returns(r, env) ==
    JsonOutcome(r, SetupCalls,
                IF r.ok THEN finally_close
                ELSE except_finally(TRUE, "Exception", env.rollback_raises))

\* process_and_load_json_data in the environment env
process_and_load_json_data_in(env, sessTbl, hitTbl, files) ==
    IF env.fault # "none"
    THEN JsonOutcome([ok |-> FALSE,
                      store |-> [sessions |-> sessTbl, hits |-> hitTbl],
                      lastCommit |-> [sessions |-> sessTbl, hits |-> hitTbl],
                      done |-> 0, log |-> <<>>],
                     setup_calls(env.fault),
                     except_finally(connection_bound(env.fault), setup_error(env.fault),
                                    env.rollback_raises))
    ELSE json_returns(process_and_load_json_data(sessTbl, hitTbl, files), env)

\* the environments a run on rows input rows is taken through: anything other
\* than a healthy one with at most MaxFaultRows rows, absent snapshot files
\* with none
Envs(rows, absent) ==
    { env \in { Env(found, fault, rr) :
                  found \in {TRUE} \cup absent, fault \in Faults, rr \in BOOLEAN } :
        /\ env # Healthy => rows <= MaxFaultRows
        /\ ~env.found => (rows = 0 /\ env.fault = "none" /\ ~env.rollback_raises)
        /\ ~connection_bound(env.fault) => ~env.rollback_raises }

(***************************************************************************)
(* The state machine: the scheduler starts one task at a time.             *)
(***************************************************************************)
Idle ==
    [task |-> "idle", ok |-> TRUE, stage |-> "idle",
     raw_sessions |-> <<>>, raw_hits |-> <<>>, files |-> <<>>,
     pre |-> [sessions |-> {}, hits |-> {}],
     lastCommit |-> [sessions |-> {}, hits |-> {}]]

Init ==
    /\ sessions = {}
    /\ hits = {}
    /\ lastRun = Idle

\* the record of the task that ended before the one that is starting, Idle
\* when the scheduler was idle
Previous == IF lastRun.task = "idle" THEN Idle ELSE lastRun

\* the scheduler may start a task when it is idle, or straight after a task
\* named in after that was itself started from idle
MayStart(after) ==
    /\ lastRun.task \in after
    /\ lastRun.task # "idle" => lastRun.prev = Idle

\* task process_data: python_callable=insert_data, on a batch drawn from
\* inputs, started as MayStart(after) allows
SnapshotRunAfter(inputs, after) ==
    /\ MayStart(after)
    /\ \E in \in inputs :
       \E env \in Envs(Len(in[1]) + Len(in[2]), {FALSE}) :
         \E r \in insert_data_in(env, sessions, hits, in[1], in[2]) :
            \* connection.rollback() is called in the except block only
            /\ env.rollback_raises => r.error # "none"
            /\ sessions' = r.store.sessions
            /\ hits' = r.store.hits
            /\ lastRun' = [task |-> "insert_data", ok |-> r.ok, stage |-> r.stage,
                           raw_sessions |-> in[1], raw_hits |-> in[2], files |-> <<>>,
                           pre |-> [sessions |-> sessions, hits |-> hits],
                           lastCommit |-> r.lastCommit,
                           df_sessions |-> r.df_sessions, df_hits |-> r.df_hits,
                           missing |-> r.missing,
                           env |-> env, log |-> r.log, calls |-> r.calls,
                           error |-> r.error, raised |-> r.raised,
                           connection |-> r.connection, prev |-> Previous]

SnapshotRunOn(inputs) == SnapshotRunAfter(inputs, {"idle"})

SnapshotRun == SnapshotRunOn(SnapshotInputs)

\* task process_json: python_callable=process_and_load_json_data, on a
\* listing drawn from inputs, started as MayStart(after) allows
IncrementalRunAfter(inputs, after) ==
    /\ MayStart(after)
    /\ \E files \in inputs :
       \E env \in Envs(Len(RowsOfFiles(files, "sessions"))
                       + Len(RowsOfFiles(files, "hits")), {}) :
         \E r \in { process_and_load_json_data_in(env, sessions, hits, files) } :
            \* connection.rollback() is called in the except block only
            /\ env.rollback_raises => r.error # "none"
            /\ sessions' = r.store.sessions
            /\ hits' = r.store.hits
            /\ lastRun' = [task |-> "process_and_load_json_data", ok |-> r.ok,
                           stage |-> IF r.ok THEN "done" ELSE "file",
                           raw_sessions |-> <<>>, raw_hits |-> <<>>, files |-> files,
                           pre |-> [sessions |-> sessions, hits |-> hits],
                           lastCommit |-> r.lastCommit,
                           env |-> env, log |-> r.log, calls |-> r.calls,
                           error |-> r.error, raised |-> r.raised,
                           connection |-> r.connection, prev |-> Previous]

IncrementalRun == IncrementalRunAfter(IncrementalInputs, {"idle"})

\* the task has returned; the scheduler may start the next one
TaskReturns ==
    /\ lastRun.task # "idle"
    /\ lastRun' = Idle
    /\ UNCHANGED <<sessions, hits>>

Next == SnapshotRun \/ IncrementalRun \/ TaskReturns

Spec == Init /\ [][Next]_vars

(***************************************************************************)
(* Snapshot runs on batches large enough for remove_outliers to drop rows: *)
(* up to five sessions, three with visit_number 2, one with 100 and one    *)
(* with 1, and hits of the last two and of another one.  Of four rows      *)
(* 2, 2, 2, 100 the 100 is dropped, of all five both the 100 and the 1.    *)
(***************************************************************************)
BatchSessionRows ==
    << Session("s1", "google", "cpc", "2024-01-03", 2, "android", "samsung", "a50"),
       Session("s2", "google", "cpc", "2024-01-03", 2, "android", "samsung", "a50"),
       Session("s3", "google", "cpc", "2024-01-03", 2, "android", "samsung", "a50"),
       Session("s4", "google", "cpc", "2024-01-05", 100, "android", "samsung", "a50"),
       Session("s5", "google", "cpc", "2024-01-03", 1, "android", "samsung", "a50") >>

BatchHitPool ==
    { Hit("s4", "2024-01-05", 1, "click"),
      Hit("s4", "2024-01-03", 2, "click"),
      Hit("s5", "2024-01-03", 1, "click"),
      Hit("s1", "2024-01-03", 1, "click") }

\* a sessions frame holding some of the rows, those of one visit_number all
\* or none, and at most MaxBatchHits hits
BatchInputs ==
    { <<Pick(BatchSessionRows, keep), h>> :
        keep \in { K \in SUBSET (1..Len(BatchSessionRows)) :
                     \A i \in K, j \in 1..Len(BatchSessionRows) :
                        BatchSessionRows[i].visit_number
                            = BatchSessionRows[j].visit_number => j \in K },
        h \in SeqsUpTo(BatchHitPool, MaxBatchHits) }

SnapshotBatchRun == SnapshotRunOn(BatchInputs)

BatchNext == SnapshotBatchRun \/ TaskReturns

BatchSpec == Init /\ [][BatchNext]_vars

(***************************************************************************)
(* Calls of remove_outliers on frames of up to MaxOutlierRows rows; lastRun *)
(* holds the call and what it returned.                                    *)
(***************************************************************************)
OutlierValues == {1, 2, 3, 100}

OutlierFrames ==
    { [i \in 1..Len(vs) |-> [visit_number |-> vs[i]]] :
        vs \in SeqsUpTo(OutlierValues, MaxOutlierRows) }

RemoveOutliersCall ==
    /\ lastRun.task = "idle"
    /\ \E df \in OutlierFrames :
         lastRun' = [task |-> "remove_outliers", df |-> df, column |-> "visit_number",
                     result |-> remove_outliers(df, "visit_number")]
    /\ UNCHANGED <<sessions, hits>>

OutlierNext == RemoveOutliersCall \/ TaskReturns

OutlierSpec == Init /\ [][OutlierNext]_vars

(***************************************************************************)
(* Calls of bulk_insert with the sessions query of the snapshot run on the *)
(* store as it is, on lists of up to MaxLoaderRows rows of which some      *)
(* break CHECK (visit_number > 0); lastRun holds the call, the store       *)
(* before it and what was sent.                                            *)
(***************************************************************************)
LoaderRows ==
    { Session("s1", "google", "cpc", 20240103, 1, "android", "samsung", "a50"),
      Session("s2", "google", "cpc", 20240103, 0, "android", "samsung", "a50") }

BulkInsertCall ==
    /\ lastRun.task = "idle"
    /\ \E data \in SeqsUpTo(LoaderRows, MaxLoaderRows) :
         \E r \in { bulk_insert(get_db_connection(sessions, hits), "sessions",
                                "DO NOTHING", data) } :
            \* the connection is in autocommit mode: what the statements that
            \* succeeded wrote is in the table when bulk_insert returns or raises
            /\ sessions' = Tables(r.conn).sessions
            /\ hits' = Tables(r.conn).hits
            /\ lastRun' = [task |-> "bulk_insert", data |-> data, ok |-> r.ok,
                           pre |-> [sessions |-> sessions, hits |-> hits],
                           batches |-> r.conn.batches, log |-> r.conn.log]

LoaderNext == BulkInsertCall \/ TaskReturns

LoaderSpec == Init /\ [][LoaderNext]_vars

(***************************************************************************)
(* The two tasks one after the other, in either order (the DAG has         *)
(* task_process_data >> task_process_json; a listing of the day before or  *)
(* a manual trigger gives the other order): lastRun.prev holds the record  *)
(* of the first task when the second has ended.                            *)
(***************************************************************************)
PairSnapshotInputs ==
    UNION { { <<s, h>> : s \in [1..k -> SessionPool],
                         h \in SeqsUpTo(HitPool, MaxPairRows - k) } :
              k \in 0..MaxPairRows }

PairIncrementalInputs ==
    { files \in IncrementalInputs :
        Len(RowsOfFiles(files, "sessions"))
            + Len(RowsOfFiles(files, "hits")) <= MaxPairRows }

SnapshotPairRun ==
    SnapshotRunAfter(PairSnapshotInputs, {"idle", "process_and_load_json_data"})

IncrementalPairRun ==
    IncrementalRunAfter(PairIncrementalInputs, {"idle", "insert_data"})

PairNext == SnapshotPairRun \/ IncrementalPairRun

PairSpec == Init /\ [][PairNext]_vars

(***************************************************************************)
(* The snapshot runs of BatchSpec, which leave placeholder sessions in the *)
(* store, together with incremental runs on a sessions file that holds the *)
(* record of a session of those batches.                                   *)
(***************************************************************************)
PlaceholderFiles ==
    { <<JsonFile(SessionsName, <<BatchSessionRows[i]>>)>> :
        i \in { k \in 1..Len(BatchSessionRows) :
                  BatchSessionRows[k].session_id \in {"s1", "s4"} } }

IncrementalSessionsRun == IncrementalRunAfter(PlaceholderFiles, {"idle"})

PlaceholderNext == SnapshotBatchRun \/ IncrementalSessionsRun \/ TaskReturns

PlaceholderSpec == Init /\ [][PlaceholderNext]_vars

(***************************************************************************)
(* Both orchestrators on the sessions and hits of the batches of           *)
(* BatchSpec: the snapshot runs, which synthesize placeholders, and        *)
(* incremental runs on a sessions file as in PlaceholderSpec, a hits file  *)
(* of at most MaxBatchHits hits, or both in either order.                  *)
(***************************************************************************)
BatchHitsFiles ==
    { <<JsonFile(HitsName, h)>> : h \in SeqsUpTo(BatchHitPool, MaxBatchHits) }

BatchFiles ==
    PlaceholderFiles
    \cup BatchHitsFiles
    \cup { s \o h : s \in PlaceholderFiles, h \in BatchHitsFiles }
    \cup { h \o s : s \in PlaceholderFiles, h \in BatchHitsFiles }

IncrementalBatchRun == IncrementalRunAfter(BatchFiles, {"idle"})

HitLoadNext == SnapshotBatchRun \/ IncrementalBatchRun \/ TaskReturns

HitLoadSpec == Init /\ [][HitLoadNext]_vars

(***************************************************************************)
(* Properties.  lastRun holds the input of the run that has just ended,    *)
(* the store before it (pre) and how it ended.                             *)
(***************************************************************************)
Store == [sessions |-> sessions, hits |-> hits]

RanSnapshot == lastRun.task = "insert_data"

RanIncremental == lastRun.task = "process_and_load_json_data"

\* the run that has just ended met no fault of its environment
Undisturbed == lastRun.task # "idle" /\ lastRun.env = Healthy

\* the session records and the hit records the run was given
InSessions ==
    IF RanSnapshot THEN lastRun.raw_sessions
    ELSE RowsOfFiles(lastRun.files, "sessions")

InHits ==
    IF RanSnapshot THEN lastRun.raw_hits
    ELSE RowsOfFiles(lastRun.files, "hits")

IdsOfRecords(recs) == { recs[i].session_id : i \in 1..Len(recs) }

UnknownIfNone(v) == IF v = None THEN "unknown" ELSE v

\* the text as the run stores it: the snapshot run cleans text, the
\* incremental run does not
StoredText(v) == IF RanSnapshot THEN lower_strip(v) ELSE v

\* the stored row carries the values of the input record
Carries(row, rec) ==
    /\ row.session_id = rec.session_id
    /\ row.utm_source = StoredText(rec.utm_source)
    /\ row.utm_medium = StoredText(rec.utm_medium)
    /\ row.visit_date = ParseDate(rec.visit_date)
    /\ row.visit_number = rec.visit_number
    /\ row.device_os = StoredText(rec.device_os)
    /\ row.device_brand = UnknownIfNone(rec.device_brand)
    /\ row.device_model = UnknownIfNone(rec.device_model)

\* a session record with nothing wrong: a date, a positive visit number, a
\* whitelisted medium
CleanSessionRecord(rec) ==
    /\ ParseDate(rec.visit_date) # NaT
    /\ rec.visit_number > 0
    /\ lower_strip(rec.utm_medium) \in Whitelist

\* C1: running the snapshot orchestrator again on the batch it has just been
\* given leaves the store as the first run left it.
SnapshotIdempotent ==
    (RanSnapshot /\ Undisturbed) =>
        \A r \in insert_data(sessions, hits, lastRun.raw_sessions, lastRun.raw_hits) :
            r.store = Store

SnapshotIdempotentWitness ==
    /\ RanSnapshot
    /\ lastRun.ok
    /\ sessions # lastRun.pre.sessions
    /\ hits # lastRun.pre.hits
    /\ lastRun.pre.sessions # {}

\* C2: every hit row of the store has a session row with its session_id, in
\* every state, also after a run that aborted part-way.
ReferentialCompleteness ==
    \A h \in hits : \E x \in sessions : x.session_id = h.session_id

ReferentialCompletenessWitness ==
    /\ lastRun.task # "idle"
    /\ ~lastRun.ok
    /\ Store # lastRun.pre
    /\ hits # {}

\* C3: after a run of either orchestrator, a session_id that input hits refer
\* to and that has no session record in the input and no row in the store
\* before the run has a placeholder row (visit_date the least hit_date,
\* visit_number 1, "unknown" elsewhere) and has its hits in the store.
GapSynthesisEndToEnd ==
    (lastRun.task # "idle" /\ lastRun.ok) =>
        \A id \in IdsOfRecords(InHits) :
            (id \notin IdsOfRecords(InSessions)
             /\ \A x \in lastRun.pre.sessions : x.session_id # id)
            => /\ Session(id, "unknown", "unknown",
                          MinOf({ ParseDate(InHits[i].hit_date) :
                                    i \in { j \in 1..Len(InHits) :
                                              InHits[j].session_id = id } }),
                          1, "unknown", "unknown", "unknown") \in sessions
               /\ \E h \in hits : h.session_id = id

\* C4: after an incremental run that completed, the row of every session_id
\* of the sessions file carries the values of the file's (last) record for it,
\* and the rows of the other session_ids are as they were.
OverwriteFreshness ==
    (RanIncremental /\ lastRun.ok) =>
        /\ \A i \in 1..Len(InSessions) :
              (\A k \in (i + 1)..Len(InSessions) :
                   InSessions[k].session_id # InSessions[i].session_id)
              => \E x \in sessions : Carries(x, InSessions[i])
        /\ \A x \in lastRun.pre.sessions :
              x.session_id \notin IdsOfRecords(InSessions) => x \in sessions

OverwriteFreshnessWitness ==
    /\ RanIncremental
    /\ lastRun.ok
    /\ \E i \in 1..Len(InSessions) :
          /\ \E old \in lastRun.pre.sessions :
                /\ old.session_id = InSessions[i].session_id
                /\ old.utm_medium # InSessions[i].utm_medium
          /\ \E x \in sessions : Carries(x, InSessions[i])
    /\ \E x \in lastRun.pre.sessions :
          x.session_id \notin IdsOfRecords(InSessions) /\ x \in sessions

\* C5 as stated: a snapshot run changes no session row and no hit row that
\* was in the store before it.
InsertIfAbsentSnapshot ==
    RanSnapshot =>
        /\ lastRun.pre.sessions \subseteq sessions
        /\ lastRun.pre.hits \subseteq hits

\* C5 as amended: a snapshot run changes no session row that was in the store
\* before it; a hit row that was in the store keeps its key and is either
\* unchanged or overwritten with the hit_date and the event_label of a hit of
\* the batch with its key.
SnapshotKeepsSessionRows ==
    RanSnapshot =>
        /\ lastRun.pre.sessions \subseteq sessions
        /\ \A h \in lastRun.pre.hits :
              \/ h \in hits
              \/ \E g \in hits, i \in 1..Len(InHits) :
                    /\ HitKey(g) = HitKey(h)
                    /\ HitKey(InHits[i]) = HitKey(h)
                    /\ g.hit_date = ParseDate(InHits[i].hit_date)
                    /\ g.event_label = lower_strip(InHits[i].event_label)

SnapshotKeepsSessionRowsWitness ==
    /\ RanSnapshot
    /\ lastRun.ok
    /\ \E old \in lastRun.pre.sessions, i \in 1..Len(InSessions) :
          /\ old.session_id = InSessions[i].session_id
          /\ CleanSessionRecord(InSessions[i])
          /\ ~Carries(old, InSessions[i])
          /\ old \in sessions
    /\ \E h \in lastRun.pre.hits : h \notin hits

\* C6: when a run failed, the store is what it was at the last commit() the
\* run reached: nothing the failing stage sent is in it.
RollbackToStageCommit ==
    (lastRun.task # "idle" /\ ~lastRun.ok) => Store = lastRun.lastCommit

\* C7: a run given two hit records with one key and different labels, the
\* session being in the store (and, for the snapshot, in the batch) and
\* nothing else being wrong with the input, succeeds and leaves one row for
\* the key, with the label of the later record.
DuplicateHitCollapse ==
    Undisturbed =>
        \A i, j \in 1..Len(InHits) :
            (/\ i < j
             /\ HitKey(InHits[i]) = HitKey(InHits[j])
             /\ InHits[i].event_label # InHits[j].event_label
             /\ \A k \in (j + 1)..Len(InHits) : HitKey(InHits[k]) # HitKey(InHits[j])
             /\ \E x \in lastRun.pre.sessions : x.session_id = InHits[j].session_id
             /\ \A k \in 1..Len(InSessions) : CleanSessionRecord(InSessions[k])
             /\ IF RanSnapshot
                THEN InHits[j].session_id \in IdsOfRecords(InSessions)
                ELSE InSessions = <<>>)
            => /\ lastRun.ok
               /\ \E h \in hits : HitKey(h) = HitKey(InHits[j])
               /\ \A h \in hits :
                     HitKey(h) = HitKey(InHits[j])
                     => h.event_label = StoredText(InHits[j].event_label)

\* C8: a run given two session records with one session_id and different
\* values, nothing else being wrong with the input, succeeds and leaves one
\* row for the session_id, with the values of the later record.
SessionDeduplication ==
    Undisturbed =>
        \A i, j \in 1..Len(InSessions) :
            (/\ i < j
             /\ InSessions[i].session_id = InSessions[j].session_id
             /\ InSessions[i] # InSessions[j]
             /\ \A k \in (j + 1)..Len(InSessions) :
                   InSessions[k].session_id # InSessions[j].session_id
             /\ \A k \in 1..Len(InSessions) : CleanSessionRecord(InSessions[k])
             /\ InHits = <<>>)
            => /\ lastRun.ok
               /\ \A x \in sessions :
                     x.session_id = InSessions[j].session_id => Carries(x, InSessions[j])

\* C9: no run writes a session record whose utm_medium is outside the
\* whitelist.
WhitelistFiltering ==
    lastRun.task # "idle" =>
        \A i \in 1..Len(InSessions) :
            lower_strip(InSessions[i].utm_medium) \notin Whitelist
            => ~\E x \in sessions \ lastRun.pre.sessions : Carries(x, InSessions[i])

\* C10: a run given session records of which some have a date that cannot be
\* parsed and some have nothing wrong, all with distinct session_ids, succeeds
\* and loads the ones that have nothing wrong.
PerRowErrorsDoNotAbort ==
    Undisturbed =>
        ((/\ InHits = <<>>
          /\ \E i \in 1..Len(InSessions) : ParseDate(InSessions[i].visit_date) = NaT
          /\ \E i \in 1..Len(InSessions) : CleanSessionRecord(InSessions[i])
          /\ \A i \in 1..Len(InSessions) :
                /\ InSessions[i].visit_number > 0
                /\ lower_strip(InSessions[i].utm_medium) \in Whitelist
          /\ \A i, j \in 1..Len(InSessions) :
                i # j => InSessions[i].session_id # InSessions[j].session_id)
         => /\ lastRun.ok
            /\ \A i \in 1..Len(InSessions) :
                  CleanSessionRecord(InSessions[i])
                  => \E x \in sessions : x.session_id = InSessions[i].session_id)

\* C11: after an incremental run that completed, every hit of the run's hit
\* file whose session_id is in the run's sessions file is in the store,
\* whichever of the two files the directory listing returned first.
SessionsBeforeHits ==
    (RanIncremental /\ lastRun.ok) =>
        \A i \in 1..Len(InHits) :
            InHits[i].session_id \in IdsOfRecords(InSessions)
            => \E h \in hits : HitKey(h) = HitKey(InHits[i])

\* C12: every hit of the hits frame load_data returned has its session_id in
\* the sessions frame load_data returned for the same batch.
IntegrityFilterOutput ==
    RanSnapshot =>
        \A i \in 1..Len(lastRun.df_hits) :
            lastRun.df_hits[i].session_id \in IdsOfRecords(lastRun.df_sessions)

\* the run that has just ended had acquired its connection: get_db_connection
\* returned and create_tables was called with it
Acquired == lastRun.task # "idle" /\ Len(lastRun.calls) = Len(SetupCalls)

\* C13: a run of either orchestrator that had acquired the connection has
\* closed it when it returns or propagates, whether the try block completed,
\* raised, or the rollback itself raised.
ConnectionRelease ==
    Acquired => lastRun.connection = "closed"

ConnectionReleaseWitness ==
    /\ Acquired
    /\ lastRun.error # "none"
    /\ lastRun.env.rollback_raises
    /\ lastRun.raised = "InterfaceError"
    /\ lastRun.connection = "closed"

\* C14: a snapshot run whose input file is absent returns without raising and
\* makes no call to the store: no set-up call, no statement, store unchanged.
MissingSourceHandling ==
    (RanSnapshot /\ ~lastRun.env.found) =>
        /\ lastRun.raised = "none"
        /\ lastRun.calls = <<>>
        /\ lastRun.log = <<>>
        /\ Store = lastRun.pre

\* C20: when the try block of a run raised (a set-up call included) and the
\* rollback itself does not fail, the handler completes: the run returns, or
\* raises the error of the try block, and no other error leaves it.
TopLevelExceptionHandling ==
    (/\ lastRun.task # "idle"
     /\ lastRun.env.found
     /\ lastRun.error # "none"
     /\ ~lastRun.env.rollback_raises)
    => lastRun.raised \in {"none", lastRun.error}

HitKeysOf(tbl) == { HitKey(h) : h \in tbl }

\* C15: no step of any run, completed or failed, removes a session_id or a
\* (session_id, hit_number) key from the store.
StoreKeysOnlyGrow ==
    [][/\ SessionIdsOf(sessions) \subseteq SessionIdsOf(sessions')
       /\ HitKeysOf(hits) \subseteq HitKeysOf(hits')]_vars

StoreKeysOnlyGrowWitness ==
    /\ lastRun.task # "idle"
    /\ ~lastRun.ok
    /\ lastRun.pre.hits # {}
    /\ SessionIdsOf(lastRun.pre.sessions) # SessionIdsOf(sessions)
    /\ SessionIdsOf(lastRun.pre.sessions) \subseteq SessionIdsOf(sessions)
    /\ HitKeysOf(lastRun.pre.hits) \subseteq HitKeysOf(hits)

\* the k-th smallest of the values, by counting
OrderStatistic(vals, k) ==
    CHOOSE v \in Rows(vals) :
        /\ Cardinality({ i \in 1..Len(vals) : vals[i] < v }) < k
        /\ Cardinality({ i \in 1..Len(vals) : vals[i] <= v }) >= k

\* four times the p = k/4 quantile: the value at position (n - 1) * p of the
\* ordered values, interpolated linearly between its two neighbours
FourQuantiles(vals, k) ==
    LET h == (Len(vals) - 1) * k
    IN IF h % 4 = 0 THEN 4 * OrderStatistic(vals, (h \div 4) + 1)
       ELSE (4 - (h % 4)) * OrderStatistic(vals, (h \div 4) + 1)
            + (h % 4) * OrderStatistic(vals, (h \div 4) + 2)

\* v lies in [Q1 - 1.5 * IQR, Q3 + 1.5 * IQR], given four times Q1 and four
\* times Q3, all sides multiplied by 8
WithinBounds(v, q1, q3) ==
    /\ 8 * v >= 2 * q1 - 3 * (q3 - q1)
    /\ 8 * v <= 2 * q3 + 3 * (q3 - q1)

\* the rows of df whose value in col lies within the bounds of that column
RowsWithinBounds(df, col) ==
    LET q1 == FourQuantiles(Column(df, col), 1)
        q3 == FourQuantiles(Column(df, col), 3)
    IN Pick(df, { i \in 1..Len(df) : WithinBounds(df[i][col], q1, q3) })

RanRemoveOutliers == lastRun.task = "remove_outliers"

\* C16: remove_outliers returns, in their order, exactly the rows whose value
\* lies in [Q1 - 1.5 * IQR, Q3 + 1.5 * IQR]; of the values 1, 1, 1, 2, 2, 3,
\* 100 it removes the 100 and keeps the other six.
OutlierBound ==
    RanRemoveOutliers =>
        /\ lastRun.result = RowsWithinBounds(lastRun.df, lastRun.column)
        /\ Column(lastRun.df, "visit_number") = <<1, 1, 1, 2, 2, 3, 100>>
           => Column(lastRun.result, "visit_number") = <<1, 1, 1, 2, 2, 3>>

OutlierBoundWitness ==
    /\ RanRemoveOutliers
    /\ Column(lastRun.df, "visit_number") = <<1, 1, 1, 2, 2, 3, 100>>
    /\ Column(lastRun.result, "visit_number") = <<1, 1, 1, 2, 2, 3>>

\* the statements on the hits table the run handed to the store
HitStatements == { k \in 1..Len(lastRun.log) : lastRun.log[k].table = "hits" }

\* C17: whenever a run of either orchestrator hands a hit row to the store,
\* a session row with the hit's session_id is already durable in the store.
SessionBeforeHit ==
    lastRun.task # "idle" =>
        \A k \in HitStatements :
            \A i \in 1..Len(lastRun.log[k].rows) :
                lastRun.log[k].rows[i].session_id
                    \in SessionIdsOf(lastRun.log[k].committed)

\* an incremental run handed the store a hit of a session that was not in
\* the store when the run began
HitAfterSessionOfSameRun ==
    /\ RanIncremental
    /\ \E k \in HitStatements :
          \E i \in 1..Len(lastRun.log[k].rows) :
             /\ lastRun.log[k].rows[i].session_id
                   \notin SessionIdsOf(lastRun.pre.sessions)
             /\ lastRun.log[k].rows[i].session_id
                   \in SessionIdsOf(lastRun.log[k].committed)

\* the snapshot run that has just ended went past its sessions stage
ReachedGapStep ==
    RanSnapshot /\ lastRun.stage \in {"missing sessions", "hits", "done"}

\* the statements of the gap step: the statements on sessions that follow
\* those of the sessions stage
GapStatements ==
    { k \in 1..Len(lastRun.log) :
        /\ lastRun.log[k].table = "sessions"
        /\ k > Len(bulk_insert_statements(lastRun.df_sessions)) }

\* the rows the gap step handed to the store
GapRows == UNION { Rows(lastRun.log[k].rows) : k \in GapStatements }

\* the session rows of the store when the gap step began
SessionsAtGap ==
    IF GapStatements = {} THEN sessions
    ELSE lastRun.log[CHOOSE k \in GapStatements :
                        \A j \in GapStatements : k <= j].committed

\* C18: the placeholders the gap step of a snapshot run inserts are those of
\* the session_ids of the hits to be loaded that the store does not hold after
\* the sessions stage; each has the least hit_date of its session_id as
\* visit_date, visit_number 1 and "unknown" elsewhere; the step leaves the
\* session rows of the store as they were.
GapReconcilerStep ==
    ReachedGapStep =>
        /\ SessionIdsOf(GapRows)
              = IdsOfRecords(lastRun.df_hits) \ SessionIdsOf(SessionsAtGap)
        /\ \A r \in GapRows :
              r = Session(r.session_id, "unknown", "unknown",
                          MinOf({ lastRun.df_hits[i].hit_date :
                                    i \in { j \in 1..Len(lastRun.df_hits) :
                                              lastRun.df_hits[j].session_id
                                                  = r.session_id } }),
                          1, "unknown", "unknown", "unknown")
        /\ SessionsAtGap \subseteq sessions
        /\ sessions = SessionsAtGap \cup GapRows

GapReconcilerStepWitness ==
    /\ ReachedGapStep
    /\ lastRun.ok
    /\ GapRows # {}
    /\ lastRun.pre.sessions # {}
    /\ \E i, j \in 1..Len(lastRun.df_hits) :
          /\ i < j
          /\ lastRun.df_hits[i].session_id = lastRun.df_hits[j].session_id
          /\ lastRun.df_hits[i].hit_date > lastRun.df_hits[j].hit_date
          /\ lastRun.df_hits[i].session_id \in SessionIdsOf(GapRows)

RanBulkInsert == lastRun.task = "bulk_insert"

\* ceil(n / b)
CeilDiv(n, b) == (n + b - 1) \div b

\* the statement as worded, for every call whether or not the store raises:
\* ceil(n / B) calls of 1 to B rows each whose concatenation is the input
LoaderBatchingEveryCall ==
    RanBulkInsert =>
        /\ Len(lastRun.batches) = CeilDiv(Len(lastRun.data), BatchRows)
        /\ \A b \in 1..Len(lastRun.batches) :
              Len(lastRun.batches[b]) \in 1..BatchRows
        /\ Flatten(lastRun.batches) = lastRun.data

\* C19: bulk_insert calls the store once per batch, in sequence.  The calls
\* made are always the leading batches of the input list: call b carries the
\* rows (b - 1) * B + 1 .. min(b * B, n) in order, so each has 1 to B rows,
\* and the empty list makes no call.  When no call raises there are
\* ceil(n / B) of them and their concatenation in call order is the input
\* list, as is that of the statements sent; when a call raises, it is the
\* last one made.
LoaderBatching ==
    RanBulkInsert =>
        /\ \A b \in 1..Len(lastRun.batches) :
              /\ Len(lastRun.batches[b]) \in 1..BatchRows
              /\ Len(lastRun.batches[b]) =
                    IF b * BatchRows <= Len(lastRun.data) THEN BatchRows
                    ELSE Len(lastRun.data) - (b - 1) * BatchRows
              /\ \A i \in 1..Len(lastRun.batches[b]) :
                    lastRun.batches[b][i] = lastRun.data[(b - 1) * BatchRows + i]
        /\ Len(lastRun.batches) <= CeilDiv(Len(lastRun.data), BatchRows)
        /\ lastRun.data = <<>> => lastRun.batches = <<>>
        /\ lastRun.ok =>
              /\ Len(lastRun.batches) = CeilDiv(Len(lastRun.data), BatchRows)
              /\ Flatten(lastRun.batches) = lastRun.data
              /\ Flatten([k \in 1..Len(lastRun.log) |-> lastRun.log[k].rows])
                    = lastRun.data
        /\ ~lastRun.ok =>
              /\ lastRun.batches # <<>>
              /\ \E i \in 1..Len(lastRun.batches[Len(lastRun.batches)]) :
                    lastRun.batches[Len(lastRun.batches)][i].visit_number <= 0
              /\ \A b \in 1..(Len(lastRun.batches) - 1) :
                    \A i \in 1..Len(lastRun.batches[b]) :
                       lastRun.batches[b][i].visit_number > 0

LoaderBatchingWitness ==
    /\ RanBulkInsert
    /\ lastRun.ok
    /\ Len(lastRun.data) = 2 * BatchRows + 1
    /\ Len(lastRun.batches) = 3
    /\ Len(lastRun.batches[3]) = 1
    /\ Len(lastRun.log) > Len(lastRun.batches)

\* the second task of a pair has ended
RanPair == lastRun.task # "idle" /\ lastRun.prev # Idle

\* the records of the snapshot run and of the incremental run of the pair
SnapshotOfPair == IF RanSnapshot THEN lastRun ELSE lastRun.prev

IncrementalOfPair == IF RanIncremental THEN lastRun ELSE lastRun.prev

\* one run of each orchestrator, both complete
RanBothComplete ==
    /\ RanPair
    /\ lastRun.task # lastRun.prev.task
    /\ lastRun.ok
    /\ lastRun.prev.ok

\* the row that holds the values of a record of a JSON sessions file
IncrementalRecordRow(rec) ==
    Session(rec.session_id, rec.utm_source, rec.utm_medium,
            ParseDate(rec.visit_date), rec.visit_number, rec.device_os,
            UnknownIfNone(rec.device_brand), UnknownIfNone(rec.device_model))

\* the session records of the incremental run of the pair
IncrementalSessionsOfPair == RowsOfFiles(IncrementalOfPair.files, "sessions")

\* the record is the last one of its session_id in the sessions file
LastOfItsId(recs, i) ==
    \A k \in (i + 1)..Len(recs) : recs[k].session_id # recs[i].session_id

\* C21: after one complete snapshot run and one complete incremental run, in
\* either order, the store has exactly one row for every session_id that is
\* both in the snapshot batch and in the incremental sessions file, and that
\* row holds the values of the (last) incremental record of the session_id.
OrderIndependentSessions ==
    RanBothComplete =>
        \A i \in 1..Len(IncrementalSessionsOfPair) :
            (/\ IncrementalSessionsOfPair[i].session_id
                    \in IdsOfRecords(SnapshotOfPair.raw_sessions)
             /\ LastOfItsId(IncrementalSessionsOfPair, i))
            => { x \in sessions :
                   x.session_id = IncrementalSessionsOfPair[i].session_id }
                 = { IncrementalRecordRow(IncrementalSessionsOfPair[i]) }

\* the snapshot run came second, with a record it would have stored had the
\* session_id been absent, and the row is still the incremental one
OrderIndependentSessionsWitness ==
    /\ RanBothComplete
    /\ RanSnapshot
    /\ \E i \in 1..Len(IncrementalSessionsOfPair),
          j \in 1..Len(lastRun.raw_sessions) :
          /\ lastRun.raw_sessions[j].session_id
                = IncrementalSessionsOfPair[i].session_id
          /\ CleanSessionRecord(lastRun.raw_sessions[j])
          /\ \E k \in 1..Len(lastRun.df_sessions) :
                /\ lastRun.df_sessions[k].session_id
                      = lastRun.raw_sessions[j].session_id
                /\ lastRun.df_sessions[k]
                      # IncrementalRecordRow(IncrementalSessionsOfPair[i])
          /\ IncrementalRecordRow(IncrementalSessionsOfPair[i]) \in sessions

\* the same with the snapshot run first: its row was in the store and the
\* incremental run replaced it
OverwrittenAfterSnapshot ==
    /\ RanBothComplete
    /\ RanIncremental
    /\ \E i \in 1..Len(IncrementalSessionsOfPair) :
          /\ \E old \in lastRun.pre.sessions :
                /\ old.session_id = IncrementalSessionsOfPair[i].session_id
                /\ old # IncrementalRecordRow(IncrementalSessionsOfPair[i])
                /\ \E k \in 1..Len(lastRun.prev.df_sessions) :
                      lastRun.prev.df_sessions[k] = old
          /\ IncrementalRecordRow(IncrementalSessionsOfPair[i]) \in sessions

\* a synthesized session: "unknown" in every text column, visit_number 1
IsPlaceholder(x) ==
    /\ x.utm_source = "unknown"
    /\ x.utm_medium = "unknown"
    /\ x.visit_number = 1
    /\ x.device_os = "unknown"
    /\ x.device_brand = "unknown"
    /\ x.device_model = "unknown"

\* C22: a placeholder session that is in the store when a run starts is
\* still there, unchanged and the only row of its session_id, after every
\* snapshot run, also one whose batch has the real record of the session_id;
\* a run after which it is no longer there is an incremental run whose
\* sessions file has a record of the session_id.
PlaceholderPermanence ==
    lastRun.task # "idle" =>
        \A x \in lastRun.pre.sessions :
            IsPlaceholder(x) =>
                /\ RanSnapshot =>
                      { y \in sessions : y.session_id = x.session_id } = {x}
                /\ x \notin sessions =>
                      /\ RanIncremental
                      /\ x.session_id \in IdsOfRecords(InSessions)

\* a snapshot run that completed, whose cleaned batch had the real record of
\* a session_id the store held a placeholder for
PlaceholderPermanenceWitness ==
    /\ RanSnapshot
    /\ lastRun.ok
    /\ \E x \in lastRun.pre.sessions, k \in 1..Len(lastRun.df_sessions) :
          /\ IsPlaceholder(x)
          /\ lastRun.df_sessions[k].session_id = x.session_id
          /\ ~IsPlaceholder(lastRun.df_sessions[k])
          /\ x \in sessions

\* an incremental run replaced a placeholder with the record of its file
PlaceholderReplaced ==
    /\ RanIncremental
    /\ lastRun.ok
    /\ \E x \in lastRun.pre.sessions, i \in 1..Len(InSessions) :
          /\ IsPlaceholder(x)
          /\ x \notin sessions
          /\ InSessions[i].session_id = x.session_id
          /\ IncrementalRecordRow(InSessions[i]) \in sessions

\* a snapshot run whose gap step wrote the placeholders of two session_ids in
\* one statement, the greater session_id first
GapRowsInEitherOrder ==
    /\ ReachedGapStep
    /\ \E k \in GapStatements :
          /\ Len(lastRun.log[k].rows) > 1
          /\ lastRun.log[k].rows[1].session_id = "s5"

\* a snapshot run that completed handed the store a hit of a session that
\* was not in the store when the run began and is not in the sessions frame:
\* the row committed before the hit is the placeholder of the gap step
SessionBeforeHitWitness ==
    /\ ReachedGapStep
    /\ lastRun.ok
    /\ \E k \in HitStatements :
          \E i \in 1..Len(lastRun.log[k].rows) :
             /\ lastRun.log[k].rows[i].session_id
                   \notin SessionIdsOf(lastRun.pre.sessions)
             /\ lastRun.log[k].rows[i].session_id
                   \notin IdsOfRecords(lastRun.df_sessions)
             /\ lastRun.log[k].rows[i].session_id \in SessionIdsOf(GapRows)
             /\ \E x \in lastRun.log[k].committed :
                   /\ x.session_id = lastRun.log[k].rows[i].session_id
                   /\ IsPlaceholder(x)
             /\ \E h \in hits : HitKey(h) = HitKey(lastRun.log[k].rows[i])

====
